---- MODULE Spec2Model ----
(***************************************************************************)
(* A model of py-tetris (src/tetris/game.py, src/tetris/terminal.py): the  *)
(* Field index, the collision oracle, the tetrimino operations and the     *)
(* Game.run loop.  The program is single threaded; pc is the position of   *)
(* the thread inside Game.run.  A key handler runs inside                  *)
(* Terminal.peek_key_event, which is the last thing Game.move and          *)
(* Game.update do (Terminal.update), so a nested handler is a tail call    *)
(* and the pending caller is fully described by frame.                     *)
(***************************************************************************)
EXTENDS Integers, Sequences, FiniteSets, TLC

VARIABLES
    cells,        \* obj -> list of Cell (x, y), GameObject.cells
    pos,          \* obj -> Vector2, Renderable.pos (the spawn origin)
    gravity,      \* obj -> GameObject.gravity
    collidable,   \* obj -> Renderable.collidable
    parent,       \* obj -> TRUE when obj.parent is the Game
    data,         \* Field.data[y][x]: the owner recorded in the slot, or None
    player,       \* Game.player
    next_player,  \* Game.next_player
    will_spawn,   \* Game.will_spawn
    nobj,         \* number of tetriminos constructed so far
    pc,           \* position of the thread in Game.run
    frame,        \* the pending caller of the running Game.move
    mv,           \* arguments of the Game.move entered last, and the cells
                  \* its object had when it was entered
    status,       \* "running", or how Game.run ended
    keys,         \* number of key events read so far
    last,         \* name of the step taken last
    obs           \* what the operations run on their own observed

vars == <<cells, pos, gravity, collidable, parent, data, player, next_player,
          will_spawn, nobj, pc, frame, mv, status, keys, last, obs>>

\* ---------------------------------------------------------------- bounds
MaxObjs == 3
MaxKeys == 1
\* pieces already locked on the board when a scenario starts
MaxPre == 2

\* ------------------------------------------------------------- constants
None == 0
MapId == 1
SpawnX == 4
SpawnY == 0
DownStep == 3
CELLX == 2
CELLY == 1
TermW == 11
TermH == 6

\* map.txt: one string per row, '*' marks a wall cell.
MapData ==
    << <<"*", " ", " ", " ", " ", " ", " ", " ", " ", "*">>,
       <<"*", " ", " ", " ", " ", " ", " ", " ", " ", "*">>,
       <<"*", " ", " ", " ", " ", " ", " ", " ", " ", "*">>,
       <<"*", " ", " ", " ", " ", " ", " ", " ", " ", "*">>,
       <<"*", "*", "*", "*", "*", "*", "*", "*", "*", "*">> >>

MapW == Len(MapData[1])
MapH == Len(MapData)

Kinds == {"I", "O", "S", "Z", "T", "L", "J"}
FirstId == MapId + 1
TetIds == FirstId .. (MapId + MaxObjs + MaxPre)
PreIds == (MapId + MaxObjs + 1) .. (MapId + MaxObjs + MaxPre)
ObjIds == {MapId} \cup TetIds

Cell(x, y) == [x |-> x, y |-> y]

\* ------------------------------------------------------------ Map.load
RECURSIVE LoadRow(_, _, _)
LoadRow(line, y, x) ==
    IF x > Len(line) THEN <<>>
    ELSE (IF line[x] = "*" THEN <<Cell(x - 1, y - 1)>> ELSE <<>>)
         \o LoadRow(line, y, x + 1)

RECURSIVE LoadRows(_)
LoadRows(y) ==
    IF y > Len(MapData) THEN <<>>
    ELSE LoadRow(MapData[y], y, 1) \o LoadRows(y + 1)

MapCells == LoadRows(1)

\* ------------------------------------------------- the piece catalogue
Shape(kind, x, y) ==
    CASE kind = "I" -> <<Cell(x+1, y), Cell(x, y), Cell(x+2, y), Cell(x+3, y)>>
      [] kind = "O" -> <<Cell(x, y), Cell(x+1, y), Cell(x, y+1), Cell(x+1, y+1)>>
      [] kind = "S" -> <<Cell(x+1, y), Cell(x, y), Cell(x+1, y+1), Cell(x+2, y+1)>>
      [] kind = "Z" -> <<Cell(x+1, y-1), Cell(x, y), Cell(x+1, y), Cell(x+2, y-1)>>
      [] kind = "L" -> <<Cell(x+2, y), Cell(x, y), Cell(x+1, y), Cell(x+2, y+1)>>
      [] kind = "J" -> <<Cell(x, y), Cell(x, y+1), Cell(x+1, y), Cell(x+2, y)>>
      [] kind = "T" -> <<Cell(x+1, y), Cell(x, y), Cell(x+1, y+1), Cell(x+2, y)>>

\* ---------------------------------------------------------- Vector2
\* A Vector2 is an object: oid is its identity.  The class defines no
\* __eq__, so == is Python's default comparison, by identity.
Vector2(oid, x, y) == [oid |-> oid, x |-> x, y |-> y]
Fresh == -1
Vector2Eq(a, b) == a.oid = b.oid

\* ------------------------------------------------ Python list indexing
\* lst[i] for a list of length n: a negative index counts from the end,
\* anything outside -n .. n-1 raises IndexError.
InRange(i, n) == -n <= i /\ i < n
PyIdx(i, n) == IF i < 0 THEN i + n ELSE i

Abs(v) == IF v < 0 THEN -v ELSE v

\* Optional arguments (dx: int=None): <<>> is None, <<v>> is the value v.
Some(v) == <<v>>
Nothing == <<>>
OrZero(a) == IF a = Nothing THEN 0 ELSE a[1]

\* ------------------------------------------------------ the program state
\* The operations below are functions of the whole program state, a record
\* of the variables; exc names the exception in flight ("none": none), ev
\* lists the on_collided calls made so far by the operation under way and
\* calls the calls of check_tetris, restructure and add_player's promotion.
Cur ==
    [cells |-> cells, pos |-> pos, gravity |-> gravity,
     collidable |-> collidable, parent |-> parent, data |-> data,
     player |-> player, next_player |-> next_player,
     will_spawn |-> will_spawn, nobj |-> nobj, exc |-> "none", full |-> FALSE,
     ev |-> <<>>, calls |-> <<>>]

Raise(s, e) == IF s.exc = "none" THEN [s EXCEPT !.exc = e] ELSE s

\* ------------------------------------------------- terminal.py helpers
\* (mutant) the pivot itself is moved by the transform.
RotateCellsDrift(cs, reverse) ==
    IF Len(cs) = 0 THEN cs
    ELSE LET px == cs[1].x
             py == cs[1].y
         IN  [i \in 1 .. Len(cs) |->
                 Cell(px - (cs[i].y - py), py - (cs[i].x - px) - 1)]

\* rotate_cells(cells, reverse): every cell is mapped about the pivot
\* cells[0] by (x, y) -> (px - (y - py), py - (x - px)); the inverse of this
\* transform, used for the rollback, is the same map.
RotateCells(cs, reverse) ==
    IF Len(cs) = 0 THEN cs
    ELSE LET px == cs[1].x
             py == cs[1].y
         IN  [i \in 1 .. Len(cs) |->
                 Cell(px - (cs[i].y - py), py - (cs[i].x - px))]

\* scale_cells(cells): grid coordinates to terminal coordinates.
ScaleCells(cs) == [i \in 1 .. Len(cs) |-> Cell(cs[i].x * CELLX, cs[i].y * CELLY)]

\* ------------------------------------------------------ check_collision
\* (mutant) only the first object has to be collidable.
CheckCollisionOneSided(s, a, b) ==
    IF a = b THEN FALSE
    ELSE IF ~s.collidable[a] THEN FALSE
    ELSE LET ac == ScaleCells(s.cells[a])
             bc == ScaleCells(s.cells[b])
         IN  \E i \in 1 .. Len(ac) : \E j \in 1 .. Len(bc) :
                 ac[i].x = bc[j].x /\ ac[i].y = bc[j].y

\* (mutant) only the first cell of a is compared.
CheckCollisionFirstCell(s, a, b) ==
    IF a = b THEN FALSE
    ELSE IF ~s.collidable[a] \/ ~s.collidable[b] THEN FALSE
    ELSE LET ac == ScaleCells(s.cells[a])
             bc == ScaleCells(s.cells[b])
         IN  \E i \in 1 .. Len(ac) : \E j \in 1 .. Len(bc) :
                 i = 1 /\ ac[i].x = bc[j].x /\ ac[i].y = bc[j].y

CheckCollision(s, a, b) ==
    IF a = b THEN FALSE
    ELSE IF ~s.collidable[a] \/ ~s.collidable[b] THEN FALSE
    ELSE LET ac == ScaleCells(s.cells[a])
             bc == ScaleCells(s.cells[b])
         IN  \E i \in 1 .. Len(ac) : \E j \in 1 .. Len(bc) :
                 ac[i].x = bc[j].x /\ ac[i].y = bc[j].y

\* ------------------------------------------------------------- Field
\* self.data[y][x] = v for every cell of cs from the i-th on, in order; the
\* first cell outside the lists raises IndexError and the rest is not done.
RECURSIVE WriteCells(_, _, _, _)
WriteCells(s, cs, i, v) ==
    IF s.exc # "none" \/ i > Len(cs) THEN s
    ELSE IF ~(InRange(cs[i].y, TermH) /\ InRange(cs[i].x, TermW))
         THEN Raise(s, "IndexError")
         ELSE WriteCells(
                [s EXCEPT !.data[PyIdx(cs[i].y, TermH)][PyIdx(cs[i].x, TermW)] = v],
                cs, i + 1, v)

FieldClear(s, obj) ==
    IF s.exc # "none" \/ obj = None THEN s
    ELSE WriteCells(s, s.cells[obj], 1, None)

FieldUpdate(s, obj) ==
    LET c == FieldClear(s, obj)
    IN  IF c.exc # "none" THEN c ELSE WriteCells(c, c.cells[obj], 1, obj)

\* Field.get: an IndexError is caught and reported as None.
FieldGet(s, x, y) ==
    IF InRange(y, TermH) /\ InRange(x, TermW)
    THEN s.data[PyIdx(y, TermH)][PyIdx(x, TermW)]
    ELSE None

\* Field.children is a generator over the map's rows and columns.  ScanFrom
\* resumes it at position k (row-major) with the set of objects yielded so
\* far: the next object yielded and the position after it, or None at the end.
RECURSIVE ScanFrom(_, _, _)
ScanFrom(d, k, checked) ==
    IF k >= MapW * MapH THEN [obj |-> None, k |-> k]
    ELSE LET o == d[k \div MapW][k % MapW]
         IN  IF o = None \/ o \in checked
             THEN ScanFrom(d, k + 1, checked)
             ELSE [obj |-> o, k |-> k + 1]

\* The whole enumeration, for a loop that does not change the Field.
RECURSIVE ChildrenFrom(_, _, _)
ChildrenFrom(d, k, checked) ==
    LET n == ScanFrom(d, k, checked)
    IN  IF n.obj = None THEN <<>>
        ELSE <<n.obj>> \o ChildrenFrom(d, n.k, checked \cup {n.obj})

Children(d) == ChildrenFrom(d, 0, {})

\* ----------------------------------------------------------- Tetrimino
\* GameObject.move does nothing (the Map); Tetrimino.move shifts the cells.
ObjMove(s, obj, dx, dy) ==
    IF obj = MapId THEN s
    ELSE [s EXCEPT !.cells[obj] =
             [i \in 1 .. Len(s.cells[obj]) |->
                 Cell(s.cells[obj][i].x + dx, s.cells[obj][i].y + dy)]]

Collision(other, dx, dy) == [other |-> other, dx |-> dx, dy |-> dy]

\* (mutant) the test of the direction is inverted: dy < 0.
OnCollidedUp(s, self, col) ==
    IF s.exc # "none" \/ self = MapId THEN s
    ELSE IF col.dy # Nothing /\ col.dy[1] < 0
         THEN IF ~s.parent[self] THEN Raise(s, "AttributeError")
              ELSE IF self = s.player THEN [s EXCEPT !.will_spawn = TRUE]
              ELSE s
         ELSE s

\* (mutant) the object is not asked whether it is the player.
OnCollidedAny(s, self, col) ==
    IF s.exc # "none" \/ self = MapId THEN s
    ELSE IF col.dy # Nothing /\ col.dy[1] > 0
         THEN IF ~s.parent[self] THEN Raise(s, "AttributeError")
              ELSE [s EXCEPT !.will_spawn = TRUE]
         ELSE s

OnCollided(s, self, col) ==
    IF s.exc # "none" \/ self = MapId THEN s
    ELSE IF col.dy # Nothing /\ col.dy[1] > 0
         THEN IF ~s.parent[self] THEN Raise(s, "AttributeError")
              ELSE IF self = s.player THEN [s EXCEPT !.will_spawn = TRUE]
              ELSE s
         ELSE s

\* collided(obj, other, dx, dy): every object of the game is a GameObject, so
\* obj.on_collided is called with a new Collision; the call is listed in ev.
Collided(s, obj, other, dx, dy) ==
    IF s.exc # "none" THEN s
    ELSE OnCollided([s EXCEPT !.ev = Append(@, [self |-> obj,
                                                col |-> Collision(other, dx, dy)])],
                    obj, Collision(other, dx, dy))

\* The first object of the enumeration that collides with obj, or None.
RECURSIVE FirstHit(_, _, _, _)
FirstHit(s, obj, ch, i) ==
    IF i > Len(ch) THEN None
    ELSE IF CheckCollision(s, obj, ch[i]) THEN ch[i]
    ELSE FirstHit(s, obj, ch, i + 1)

\* (mutant) the rotation is not rolled back on a collision.
RotateNoRollback(s, obj) ==
    IF s.exc # "none" THEN s
    ELSE IF ~s.parent[obj] THEN Raise(s, "AttributeError")
    ELSE [s EXCEPT !.cells[obj] = RotateCells(s.cells[obj], FALSE)]

Rotate(s, obj) ==
    IF s.exc # "none" THEN s
    ELSE IF ~s.parent[obj] THEN Raise(s, "AttributeError")
    ELSE LET r == [s EXCEPT !.cells[obj] = RotateCells(s.cells[obj], FALSE)]
         IN  IF FirstHit(r, obj, Children(r.data), 1) # None
             THEN [r EXCEPT !.cells[obj] = RotateCells(r.cells[obj], TRUE)]
             ELSE r

\* Renderable.collidable of an object that add_player has not touched.
DefaultCollidable == TRUE

\* Tetrimino(x, y): a new object with an empty cell list (GameObject.__init__),
\* gravity on and no parent.  full is set when the model has no room for it.
NewTetrimino(s, x, y) ==
    IF s.nobj >= MaxObjs THEN [s EXCEPT !.full = TRUE]
    ELSE LET id == MapId + s.nobj + 1
         IN  [s EXCEPT !.nobj = s.nobj + 1,
                       !.cells[id] = <<>>,
                       !.pos[id] = Vector2(id, x, y),
                       !.gravity[id] = TRUE,
                       !.collidable[id] = DefaultCollidable,
                       !.parent[id] = FALSE]

\* The object NewTetrimino has just made.
Newest(s) == MapId + s.nobj

\* ITetrimino(x, y), OTetrimino(x, y), ...: the subclass fills the cells in.
NewPiece(s, kind, x, y) ==
    LET n == NewTetrimino(s, x, y)
    IN  IF n.full THEN n ELSE [n EXCEPT !.cells[Newest(n)] = Shape(kind, x, y)]

DelAt(cs, n) == [i \in 1 .. (Len(cs) - 1) |-> IF i < n THEN cs[i] ELSE cs[i + 1]]

\* Tetrimino.remove(cell), the cell being the n-th of the list.
TetRemove(s, obj, n) ==
    LET r == [s EXCEPT !.cells[obj] = DelAt(s.cells[obj], n)]
    IN  IF ~r.parent[obj] THEN Raise(r, "AttributeError")
        ELSE IF obj = r.player /\ Len(r.cells[obj]) = 0
             THEN [r EXCEPT !.will_spawn = TRUE]
             ELSE r

\* (mutant) a neighbour at distance 1 does not count: distance < 1.
IsolatedStrict(cs, n) ==
    \A m \in 1 .. Len(cs) :
        m = n \/ Abs(cs[n].x - cs[m].x) + Abs(cs[n].y - cs[m].y) >= 1

\* Tetrimino.split: the first cell with no other cell within Manhattan
\* distance 1 is deleted from the list and a new Tetrimino is returned.
Isolated(cs, n) ==
    \A m \in 1 .. Len(cs) :
        m = n \/ Abs(cs[n].x - cs[m].x) + Abs(cs[n].y - cs[m].y) > 1

Split(s, obj) ==
    LET cs == s.cells[obj]
        iso == {n \in 1 .. Len(cs) : Isolated(cs, n)}
    IN  IF Len(cs) < 2 \/ iso = {} THEN [st |-> s, ret |-> None]
        ELSE LET n == CHOOSE k \in iso : \A j \in iso : k <= j
                 t == NewTetrimino(s, cs[n].x, cs[n].y)
             IN  IF t.full THEN [st |-> t, ret |-> None]
                 ELSE [st |-> [t EXCEPT !.cells[obj] = DelAt(cs, n)],
                       ret |-> Newest(t)]

\* The loop of Field.remove_at over enumerate(obj.make_cells()): deleting
\* the n-th cell while iterating moves the iteration past its successor.
\* (mutant) the owner is not asked whether it is the Map.
RECURSIVE RemoveLoopWalls(_, _, _, _, _)
RemoveLoopWalls(s, obj, x, y, n) ==
    IF s.exc # "none" \/ n > Len(s.cells[obj]) THEN s
    ELSE IF s.cells[obj][n].x = x /\ s.cells[obj][n].y = y
         THEN RemoveLoopWalls(TetRemove(s, obj, n), obj, x, y, n + 1)
         ELSE RemoveLoopWalls(s, obj, x, y, n + 1)

RECURSIVE RemoveLoop(_, _, _, _, _)
RemoveLoop(s, obj, x, y, n) ==
    IF s.exc # "none" \/ n > Len(s.cells[obj]) THEN s
    ELSE IF s.cells[obj][n].x = x /\ s.cells[obj][n].y = y /\ obj # MapId
         THEN RemoveLoop(TetRemove(s, obj, n), obj, x, y, n + 1)
         ELSE RemoveLoop(s, obj, x, y, n + 1)

\* (mutant) the whole owner is taken off the board.
FieldRemoveAtObj(s, x, y) ==
    LET o == FieldGet(s, x, y)
    IN  IF s.exc # "none" \/ o = None THEN s
        ELSE [FieldClear(s, o) EXCEPT !.cells[o] = IF o = MapId THEN @ ELSE <<>>]

FieldRemoveAt(s, x, y) ==
    LET o == FieldGet(s, x, y)
    IN  IF s.exc # "none" \/ o = None THEN s
        ELSE RemoveLoop(
               [s EXCEPT !.data[PyIdx(y, TermH)][PyIdx(x, TermW)] = None],
               o, x, y, 1)

\* Field.remove(obj): remove_at for every cell of obj, the list being the
\* live list that remove_at deletes from.
RECURSIVE RemoveObjFrom(_, _, _)
RemoveObjFrom(s, obj, n) ==
    IF s.exc # "none" \/ n > Len(s.cells[obj]) THEN s
    ELSE RemoveObjFrom(
           FieldRemoveAt(s, s.cells[obj][n].x, s.cells[obj][n].y), obj, n + 1)

FieldRemove(s, obj) == IF obj = None THEN s ELSE RemoveObjFrom(s, obj, 1)

RECURSIVE RemoveLineFrom(_, _, _)
RemoveLineFrom(s, y, x) ==
    IF x >= TermW THEN s
    ELSE RemoveLineFrom(FieldRemoveAt(s, x, y), y, x + 1)

\* (mutant) the row is removed from the second column on.
FieldRemoveLineSkip(s, y) == RemoveLineFrom(s, y, 1)

FieldRemoveLine(s, y) == RemoveLineFrom(s, y, 0)

\* (mutant) a row of wall cells counts as filled.
CheckFilledWalls(s, y) == \A x \in 0 .. (MapW - 1) : s.data[y][x] # None

CheckFilled(s, y) ==
    /\ \A x \in 0 .. (MapW - 1) : s.data[y][x] # None
    /\ \E x \in 0 .. (MapW - 1) : s.data[y][x] # MapId

\* Field.restructure: the generator is resumed on the Field as it is then.
RECURSIVE RestructureFrom(_, _, _)
RestructureFrom(s, k, checked) ==
    LET n == ScanFrom(s.data, k, checked)
    IN  IF s.exc # "none" \/ s.full \/ n.obj = None THEN s
        ELSE IF n.obj = MapId
             THEN RestructureFrom(s, n.k, checked \cup {n.obj})
             ELSE LET sp == Split(s, n.obj)
                  IN  RestructureFrom(
                        IF sp.ret # None THEN FieldUpdate(sp.st, sp.ret)
                        ELSE sp.st,
                        n.k, checked \cup {n.obj})

\* (mutant) the restructure pass splits nothing.
FieldRestructureNone(s) == [s EXCEPT !.calls = Append(@, "restructure")]

FieldRestructure(s) ==
    RestructureFrom([s EXCEPT !.calls = Append(@, "restructure")], 0, {})

\* ------------------------------------------------------------------ Game
RECURSIVE CheckTetrisFrom(_, _)
CheckTetrisFrom(s, y) ==
    IF y >= MapH THEN FieldRestructure(s)
    ELSE IF s.exc = "none" /\ CheckFilled(s, y)
         THEN CheckTetrisFrom(FieldRemoveLine(s, y), y + 1)
         ELSE CheckTetrisFrom(s, y + 1)

CheckTetris(s) ==
    CheckTetrisFrom([s EXCEPT !.calls = Append(@, "check_tetris")], 0)

CheckGameOver(s) ==
    IF s.exc # "none" THEN s
    ELSE IF s.player = None THEN Raise(s, "AttributeError")
    ELSE LET cs == s.cells[s.player]
         IN  IF Len(cs) > 0
                /\ Vector2Eq(s.pos[s.player], Vector2(Fresh, cs[1].x, cs[1].y))
             THEN Raise(s, "Exit")
             ELSE s

\* Game.add
Add(s, obj) ==
    IF s.exc # "none" \/ obj = None THEN s
    ELSE FieldUpdate([s EXCEPT !.parent[obj] = TRUE], obj)

Op(v) == IF v >= 0 THEN 1 ELSE -1

\* The steps of Game.move: abs(dx) steps along x, then abs(dy) along y.
Steps(dx, dy) ==
    [i \in 1 .. Abs(dx) |-> [dx |-> Some(Op(dx)), dy |-> Nothing]]
    \o [i \in 1 .. Abs(dy) |-> [dx |-> Nothing, dy |-> Some(Op(dy))]]

\* (mutant) a colliding step is reported but not rolled back.
MoveOneStepNoRollback(s, obj, step) ==
    LET m == ObjMove(s, obj, OrZero(step.dx), OrZero(step.dy))
        o == FirstHit(m, obj, Children(m.data), 1)
    IN  IF o = None THEN m
        ELSE Collided(Collided(m, obj, o, step.dx, step.dy), o, obj,
                      Nothing, Nothing)

\* One step of Game.move: move, look for a collision, roll back.
MoveOneStep(s, obj, step) ==
    LET m == ObjMove(s, obj, OrZero(step.dx), OrZero(step.dy))
        o == FirstHit(m, obj, Children(m.data), 1)
    IN  IF o = None THEN m
        ELSE LET c1 == Collided(m, obj, o, step.dx, step.dy)
                 c2 == Collided(c1, o, obj, Nothing, Nothing)
             IN  IF c2.exc # "none" THEN c2
                 ELSE ObjMove(c2, obj, -OrZero(step.dx), -OrZero(step.dy))

RECURSIVE MoveSteps(_, _, _, _)
MoveSteps(s, obj, steps, i) ==
    IF s.exc # "none" \/ i > Len(steps) THEN s
    ELSE MoveSteps(MoveOneStep(s, obj, steps[i]), obj, steps, i + 1)

\* Game.move after its Field.clear(obj), up to its Terminal.update.
\* (mutant) Terminal.update is reached before Field.update(obj).
MoveBodyNoUpdate(s, obj, dx, dy) ==
    IF obj = None THEN Raise(s, "AttributeError")
    ELSE CheckGameOver(MoveSteps(s, obj, Steps(dx, dy), 1))

MoveBody(s, obj, dx, dy) ==
    IF obj = None THEN Raise(s, "AttributeError")
    ELSE FieldUpdate(CheckGameOver(MoveSteps(s, obj, Steps(dx, dy), 1)), obj)

\* Game.spawn up to the point where add_player calls Game.move: the staged
\* object is promoted; the new piece waits in the frame of add_player.
PromoteNext(s) ==
    LET p == s.next_player
    IN  [s EXCEPT !.player = p,
                  !.gravity[p] = TRUE,
                  !.collidable[p] = TRUE,
                  !.calls = Append(@, "promote")]

\* (mutant) the new piece is staged only when nothing is staged.
StageNextOnce(s, obj) ==
    LET n == [s EXCEPT !.next_player = IF @ = None THEN obj ELSE @,
                       !.gravity[obj] = FALSE,
                       !.collidable[obj] = FALSE]
    IN  [Add(n, obj) EXCEPT !.will_spawn = FALSE]

\* The rest of Game.add_player, and the will_spawn = False of Game.spawn.
StageNext(s, obj) ==
    LET n == [s EXCEPT !.next_player = obj,
                       !.gravity[obj] = FALSE,
                       !.collidable[obj] = FALSE]
    IN  [Add(n, obj) EXCEPT !.will_spawn = FALSE]

\* ------------------------------------------------------------- the run
NoFrame == [ctx |-> "none", k |-> 0, checked |-> {}, obj |-> None, try |-> FALSE]
NoObs == [before |-> <<>>, ret |-> None, n |-> 0, calls |-> <<>>]
NoMove == [obj |-> None, dx |-> 0, dy |-> 0, from |-> <<>>]

\* Game.__init__: the map is loaded and registered with an empty Field.
Constructed ==
    Add([cells |-> [o \in ObjIds |-> IF o = MapId THEN MapCells ELSE <<>>],
         pos |-> [o \in ObjIds |-> Vector2(o, 0, 0)],
         gravity |-> [o \in ObjIds |-> o = MapId],
         collidable |-> [o \in ObjIds |-> o = MapId /\ DefaultCollidable],
         parent |-> [o \in ObjIds |-> FALSE],
         data |-> [y \in 0 .. (TermH - 1) |-> [x \in 0 .. (TermW - 1) |-> None]],
         player |-> None, next_player |-> None, will_spawn |-> FALSE,
         nobj |-> 0, exc |-> "none", full |-> FALSE, ev |-> <<>>,
         calls |-> <<>>],
        MapId)

Init ==
    /\ cells = Constructed.cells
    /\ pos = Constructed.pos
    /\ gravity = Constructed.gravity
    /\ collidable = Constructed.collidable
    /\ parent = Constructed.parent
    /\ data = Constructed.data
    /\ player = None
    /\ next_player = None
    /\ will_spawn = FALSE
    /\ nobj = 0
    /\ pc = "start"
    /\ frame = NoFrame
    /\ mv = NoMove
    /\ status = "running"
    /\ keys = 0
    /\ last = "init"
    /\ obs = NoObs

\* How Game.run ends on an exception: Exit and any other exception are
\* caught inside the try block; the first spawn() is outside of it.
Ended(e, try) ==
    IF try THEN (IF e = "Exit" THEN "returned Exit" ELSE "returned Error")
    ELSE (IF e = "Exit" THEN "raised Exit" ELSE "raised Exception")

\* The variables after a step that leaves the program in state s, at
\* position p with pending caller f and move m.
Assign(s) ==
    /\ ~s.full
    /\ cells' = s.cells
    /\ pos' = s.pos
    /\ gravity' = s.gravity
    /\ collidable' = s.collidable
    /\ parent' = s.parent
    /\ data' = s.data
    /\ player' = s.player
    /\ next_player' = s.next_player
    /\ will_spawn' = s.will_spawn
    /\ nobj' = s.nobj

Becomes(s, p, f, m, name) ==
    /\ Assign(s)
    /\ last' = name
    /\ obs' = [obs EXCEPT !.calls = s.calls]
    /\ IF s.exc = "none"
       THEN pc' = p /\ frame' = f /\ mv' = m /\ status' = status
       ELSE pc' = "done" /\ frame' = NoFrame /\ mv' = m
            /\ status' = Ended(s.exc, f.try)

\* (mutant) will_spawn is not tested after Game.update.
ResumeLock(f, ws) ==
    CASE f.ctx = "gravity" -> "gravity"
      [] f.ctx = "add_player" -> "add_player"
      [] f.ctx = "run" -> "lock"

\* Where the thread continues when Terminal.update returns to the caller.
Resume(f, ws) ==
    CASE f.ctx = "gravity" -> "gravity"
      [] f.ctx = "add_player" -> "add_player"
      [] f.ctx = "run" -> IF ws THEN "lock" ELSE "update"

\* Game.move(obj, dx, dy) is entered: Field.clear(obj).
EnterMove(s, obj, dx, dy, f, name) ==
    Becomes(FieldClear(s, obj), "move", f,
            [obj |-> obj, dx |-> dx, dy |-> dy,
             from |-> IF obj = None THEN <<>> ELSE s.cells[obj]],
            name)

\* Game.run calls spawn(): nothing is staged yet, so add_player only stages
\* the new piece, and spawn() is about to call itself.
RunStart ==
    /\ pc = "start"
    /\ \E kind \in Kinds :
          LET n == NewPiece(Add(Cur, player), kind, SpawnX, SpawnY)
          IN  Becomes(StageNext([n EXCEPT !.player = n.next_player], Newest(n)),
                      "spawn", NoFrame, NoMove, "RunStart")
    /\ keys' = keys

\* The nested spawn(): the staged piece becomes the player and add_player
\* moves it one step down.
Spawn ==
    /\ pc = "spawn"
    /\ \E kind \in Kinds :
          LET n == NewPiece(Add(Cur, player), kind, SpawnX, SpawnY)
              p == PromoteNext(n)
          IN  /\ ~n.full
              /\ EnterMove(p, p.player, 0, 1,
                    [NoFrame EXCEPT !.ctx = "add_player", !.obj = Newest(n)],
                    "Spawn")
    /\ keys' = keys

\* will_spawn at the end of a loop iteration: check_tetris(), then spawn().
LockCycle ==
    /\ pc = "lock"
    /\ \E kind \in Kinds :
          LET c == CheckTetris(Cur)
              n == NewPiece(Add(c, c.player), kind, SpawnX, SpawnY)
              p == PromoteNext(n)
          IN  /\ ~n.full
              /\ IF n.exc # "none"
                 THEN Becomes(n, "done", [NoFrame EXCEPT !.try = TRUE], NoMove,
                              "LockCycle")
                 ELSE EnterMove(p, p.player, 0, 1,
                        [NoFrame EXCEPT !.ctx = "add_player", !.obj = Newest(n),
                                        !.try = TRUE],
                        "LockCycle")
    /\ keys' = keys

\* Game.move between its Field.clear and its Terminal.update.
MoveStep ==
    /\ pc = "move"
    /\ Becomes(MoveBody(Cur, mv.obj, mv.dx, mv.dy), "peek", frame, mv, "MoveStep")
    /\ keys' = keys

\* add_player after its move: the new piece is staged; spawn() returns.
AddPlayerRest ==
    /\ pc = "add_player"
    /\ Becomes(StageNext(Cur, frame.obj), "update",
               [NoFrame EXCEPT !.try = TRUE], mv, "AddPlayerRest")
    /\ keys' = keys

\* Game.update when a second has passed: the gravity loop starts.
TickGravity ==
    /\ pc = "update"
    /\ Becomes(Cur, "gravity", [NoFrame EXCEPT !.ctx = "gravity", !.try = TRUE],
               mv, "TickGravity")
    /\ keys' = keys

\* Game.update within the same second: only Terminal.update.
TickIdle ==
    /\ pc = "update"
    /\ Becomes(Cur, "peek", [NoFrame EXCEPT !.ctx = "run", !.try = TRUE],
               mv, "TickIdle")
    /\ keys' = keys

\* The gravity loop asks Field.children for its next object: objects with
\* gravity off are passed over, the first one with gravity on is moved.
RECURSIVE NextGravity(_, _, _)
NextGravity(s, k, checked) ==
    LET n == ScanFrom(s.data, k, checked)
    IN  IF n.obj = None \/ s.gravity[n.obj]
        THEN [obj |-> n.obj, k |-> n.k, checked |-> checked \cup {n.obj}]
        ELSE NextGravity(s, n.k, checked \cup {n.obj})

GravityNext ==
    /\ pc = "gravity"
    /\ LET g == NextGravity(Cur, frame.k, frame.checked)
       IN  IF g.obj = None
           THEN Becomes(Cur, "peek", [NoFrame EXCEPT !.ctx = "run", !.try = TRUE],
                        mv, "GravityEnd")
           ELSE EnterMove(Cur, g.obj, 0, 1,
                    [frame EXCEPT !.k = g.k, !.checked = g.checked], "GravityNext")
    /\ keys' = keys

\* Terminal.peek_key_event --------------------------------------------
\* No event is pending: Terminal.update returns to its caller.
NoKey ==
    /\ pc = "peek"
    /\ Becomes(Cur, Resume(frame, will_spawn), frame, mv, "NoKey")
    /\ keys' = keys

KeyMove(dx, dy, name) ==
    /\ pc = "peek"
    /\ keys < MaxKeys
    /\ keys' = keys + 1
    /\ EnterMove(Cur, player, dx, dy, frame, name)

KeyLeft == KeyMove(-1, 0, "KeyLeft")
KeyRight == KeyMove(1, 0, "KeyRight")
KeyUp == KeyMove(0, -1, "KeyUp")
KeyDown == KeyMove(0, DownStep, "KeyDown")

\* Enter: self.player.rotate(), then Terminal.update returns.
KeyEnter ==
    /\ pc = "peek"
    /\ keys < MaxKeys
    /\ keys' = keys + 1
    /\ Becomes(Rotate(Cur, player), Resume(frame, will_spawn), frame, mv,
               "KeyEnter")

\* ESC has no handler: the terminal is closed and Exit is raised.
KeyEsc ==
    /\ pc = "peek"
    /\ keys < MaxKeys
    /\ keys' = keys + 1
    /\ Becomes(Raise(Cur, "Exit"), "done", frame, mv, "KeyEsc")

Next ==
    \/ RunStart
    \/ Spawn
    \/ LockCycle
    \/ MoveStep
    \/ AddPlayerRest
    \/ TickGravity
    \/ TickIdle
    \/ GravityNext
    \/ NoKey
    \/ KeyLeft
    \/ KeyRight
    \/ KeyUp
    \/ KeyDown
    \/ KeyEnter
    \/ KeyEsc

Spec == Init /\ [][Next]_vars

TypeOK ==
    /\ pc \in {"start", "spawn", "lock", "move", "add_player", "update",
               "gravity", "peek", "done"}
    /\ nobj \in 0 .. MaxObjs
    /\ player \in {None} \cup TetIds
    /\ next_player \in {None} \cup TetIds
    /\ keys \in 0 .. MaxKeys

\* ---------------------------------------------- Tetrimino.split on its own
\* A piece of any kind, as constructed or rotated once, moved to a free
\* place of the board, of which Field.remove_line has taken one row.
MaxShift == 1

Placed(kind, rot, dx, dy) ==
    LET n == NewPiece(Constructed, kind, SpawnX, SpawnY)
        p == Newest(n)
        r == IF rot THEN [n EXCEPT !.cells[p] = RotateCells(n.cells[p], FALSE)]
             ELSE n
    IN  Add(ObjMove(r, p, dx, dy), p)

OnBoard(s, o) ==
    /\ s.exc = "none"
    /\ ~CheckCollision(s, o, MapId)
    /\ \A i \in 1 .. Len(s.cells[o]) :
          /\ s.cells[o][i].x \in 0 .. (MapW - 1)
          /\ s.cells[o][i].y \in 0 .. (MapH - 1)

InitSplit ==
    /\ \E kind \in Kinds, rot \in BOOLEAN, dx \in -MaxShift .. MaxShift,
          dy \in 1 .. 2, row \in 0 .. (MapH - 2) :
          LET s == Placed(kind, rot, dx, dy)
              c == FieldRemoveLine(s, row)
          IN  /\ OnBoard(s, FirstId)
              /\ cells = c.cells /\ pos = c.pos /\ gravity = c.gravity
              /\ collidable = c.collidable /\ parent = c.parent
              /\ data = c.data /\ player = c.player
              /\ next_player = c.next_player /\ will_spawn = c.will_spawn
              /\ nobj = c.nobj
              /\ obs = [NoObs EXCEPT !.before = c.cells[FirstId]]
    /\ pc = "split"
    /\ frame = NoFrame
    /\ mv = NoMove
    /\ status = "running"
    /\ keys = 0
    /\ last = "init"

\* obj.split() of the piece; obs.ret is what it returns.
SplitPiece ==
    /\ pc = "split"
    /\ LET sp == Split(Cur, FirstId)
       IN  /\ Assign(sp.st)
           /\ obs' = [obs EXCEPT !.ret = sp.ret]
    /\ pc' = "done"
    /\ last' = "SplitPiece"
    /\ UNCHANGED <<frame, mv, status, keys>>

\* self.field.restructure() on the same board; obs.ret is the object that
\* the call has made, if any.
RestructureCall ==
    /\ pc = "split"
    /\ LET s == FieldRestructure(Cur)
       IN  /\ Assign(s)
           /\ obs' = [obs EXCEPT !.ret = IF s.nobj > nobj THEN Newest(s) ELSE None]
    /\ pc' = "done"
    /\ last' = "RestructureCall"
    /\ UNCHANGED <<frame, mv, status, keys>>

NextSplit ==
    \/ SplitPiece
    \/ RestructureCall

SpecSplit == InitSplit /\ [][NextSplit]_vars

\* --------------------------------------------- Tetrimino.rotate on its own
\* The player piece, of any kind, as constructed or rotated once, at a free
\* place of the board; Enter is pressed up to four times.  obs.before is the
\* cell list at the start, obs.n the number of rotations accepted since.
RotateHits(s, obj) ==
    LET r == [s EXCEPT !.cells[obj] = RotateCells(s.cells[obj], FALSE)]
    IN  FirstHit(r, obj, Children(r.data), 1) # None

InitRotate ==
    /\ \E kind \in Kinds, rot \in BOOLEAN, dx \in -MaxShift .. MaxShift,
          dy \in 0 .. 2 :
          LET s == Placed(kind, rot, dx, dy)
          IN  /\ OnBoard(s, FirstId)
              /\ cells = s.cells /\ pos = s.pos /\ gravity = s.gravity
              /\ collidable = s.collidable /\ parent = s.parent
              /\ data = s.data /\ player = FirstId
              /\ next_player = s.next_player /\ will_spawn = s.will_spawn
              /\ nobj = s.nobj
              /\ obs = [NoObs EXCEPT !.before = s.cells[FirstId]]
    /\ pc = "rotate"
    /\ frame = NoFrame
    /\ mv = NoMove
    /\ status = "running"
    /\ keys = 0
    /\ last = "init"

\* self.player.rotate(); a rejected rotation ends the sequence.
RotateAgain ==
    /\ pc = "rotate"
    /\ obs.n < 4
    /\ Assign(Rotate(Cur, player))
    /\ IF RotateHits(Cur, player)
       THEN pc' = "done" /\ obs' = obs
       ELSE pc' = pc /\ obs' = [obs EXCEPT !.n = obs.n + 1]
    /\ last' = "RotateAgain"
    /\ UNCHANGED <<frame, mv, status, keys>>

NextRotate == RotateAgain

SpecRotate == InitRotate /\ [][NextRotate]_vars

\* ------------------------------------------------- the run with no input
NextFall ==
    \/ RunStart
    \/ Spawn
    \/ LockCycle
    \/ MoveStep
    \/ AddPlayerRest
    \/ TickGravity
    \/ TickIdle
    \/ GravityNext
    \/ NoKey

SpecFall == Init /\ [][NextFall]_vars

\* ------------------------------------- the run up to the first lock cycle
\* Game.run from its start until the first piece has locked: every key may
\* be pressed, the loop stops where check_tetris() and spawn() would follow.
NextFirst ==
    \/ RunStart
    \/ Spawn
    \/ MoveStep
    \/ AddPlayerRest
    \/ TickGravity
    \/ TickIdle
    \/ GravityNext
    \/ NoKey
    \/ KeyLeft
    \/ KeyRight
    \/ KeyUp
    \/ KeyDown
    \/ KeyEnter
    \/ KeyEsc

SpecFirst == Init /\ [][NextFirst]_vars

\* ------------------------------------------------------------ properties
Has(o, x, y) == \E i \in 1 .. Len(cells[o]) : cells[o][i] = Cell(x, y)
Slots(d, o) ==
    {c \in (0 .. (TermW - 1)) \X (0 .. (TermH - 1)) : d[c[2]][c[1]] = o}
Tracked == {o \in ObjIds : parent[o]}
Moved(cs, dx, dy) == [i \in 1 .. Len(cs) |-> Cell(cs[i].x + dx, cs[i].y + dy)]

\* C1 Field consistency: whenever no Game.move is between its Field.clear
\* and its Field.update, every non-empty slot (x, y) of the board records an
\* object that has a cell at exactly (x, y) (no orphan slots).
FieldConsistency ==
    pc # "move" =>
        \A y \in 0 .. (MapH - 1) : \A x \in 0 .. (MapW - 1) :
            data[y][x] # None => Has(data[y][x], x, y)

\* C2 Index completeness: at every tick boundary (Game.update is about to
\* run) every cell of every object registered with the Field has the slot
\* at its (x, y) owned by that object.
IndexComplete ==
    pc = "update" =>
        \A o \in Tracked : \A i \in 1 .. Len(cells[o]) :
            FieldGet(Cur, cells[o][i].x, cells[o][i].y) = o

\* C3 Field.clear(obj) empties only slots owned by obj: over a step that
\* is the Field.clear(obj) of Game.move and nothing else, every other object
\* owns the same slots before and after.
ClearSteps == {"GravityNext", "KeyLeft", "KeyRight", "KeyUp", "KeyDown"}
ClearFrame ==
    [][last' \in ClearSteps =>
          \A o \in ObjIds \ {mv'.obj} : Slots(data', o) = Slots(data, o)]_vars

\* C4 Bounds: every cell of every piece tracked by the Field lies on the
\* grid, 0 <= x < width and 0 <= y < height.
CellsInBounds ==
    \A o \in Tracked : \A i \in 1 .. Len(cells[o]) :
        /\ 0 <= cells[o][i].x /\ cells[o][i].x < TermW
        /\ 0 <= cells[o][i].y /\ cells[o][i].y < TermH

\* C5 Game over: when the piece promoted by add_player fails its first move
\* down and so is still where it was constructed, the run has ended.
StuckAtSpawn ==
    /\ last = "MoveStep"
    /\ frame.ctx = "add_player"
    /\ mv.obj = player
    /\ cells[player] = mv.from
GameOverDetected == StuckAtSpawn => status # "running"

\* C6 Split correctness: of a piece with at least 2 cells, one of them with
\* no other cell within Manhattan distance 1, split() returns a new piece
\* whose cell list is exactly the (first) isolated cell, and the piece keeps
\* exactly the remaining cells.
FirstIsolated(cs) ==
    CHOOSE n \in 1 .. Len(cs) :
        Isolated(cs, n) /\ \A m \in 1 .. (n - 1) : ~Isolated(cs, m)
HasIsolated(cs) == Len(cs) >= 2 /\ \E n \in 1 .. Len(cs) : Isolated(cs, n)
SplitCorrect ==
    (last = "SplitPiece" /\ HasIsolated(obs.before)) =>
        /\ obs.ret # None
        /\ cells[obs.ret] = <<obs.before[FirstIsolated(obs.before)]>>
        /\ cells[FirstId] = DelAt(obs.before, FirstIsolated(obs.before))

\* C7 Rotation rollback: when Enter is pressed and the rotated cells collide
\* with a tracked collidable object, the player's cell list after the call
\* is the list before the call, in coordinates and in order.
RotationRollback ==
    [][(last' = "KeyEnter" /\ RotateHits(Cur, player)) =>
          cells'[player] = cells[player]]_vars
RollbackSeen == last = "KeyEnter" /\ RotateHits(Cur, player)

\* C8 Rotation closure: four rotations in a row, none of them rejected,
\* return every cell of the piece to its original coordinate.
FourRotations == obs.n = 4 => cells[player] = obs.before
FourRotationsSeen == last = "RotateAgain" /\ obs.n = 4

\* C9 Unit steps: Game.move(obj, dx, dy) displaces the piece by the number
\* of unit steps that are free before the first one that collides with an
\* object enumerated by the Field, never by more and never by less.
Hits(obj, cs) ==
    \E o \in ObjIds \ {obj} :
        /\ \E y \in 0 .. (MapH - 1) : \E x \in 0 .. (MapW - 1) : data[y][x] = o
        /\ collidable[o] /\ collidable[obj]
        /\ \E i \in 1 .. Len(cs) : \E j \in 1 .. Len(cells[o]) :
              cs[i] = cells[o][j]
FreeCount(obj, ux, uy, n) ==
    Cardinality({k \in 1 .. n :
        \A j \in 1 .. k : ~Hits(obj, Moved(cells[obj], j * ux, j * uy))})
UnitSteps ==
    [][(pc = "move" /\ pc' = "peek" /\ mv.obj # MapId) =>
          LET ux == IF mv.dx # 0 THEN Op(mv.dx) ELSE 0
              uy == IF mv.dx # 0 THEN 0 ELSE Op(mv.dy)
              k == FreeCount(mv.obj, ux, uy, Abs(mv.dx) + Abs(mv.dy))
          IN  /\ mv.dx = 0 \/ mv.dy = 0
              /\ cells'[mv.obj] = Moved(cells[mv.obj], k * ux, k * uy)]_vars
DownStopsAtFirstBlock ==
    /\ last = "MoveStep"
    /\ mv.dy = DownStep
    /\ cells[mv.obj] = Moved(mv.from, 0, 1)

\* C10 Free fall: with no input, the first player piece never moves up; a
\* gravity move takes it down by exactly one row, or it is blocked by the
\* floor, stays and sets will_spawn; the loop iteration then ends in the one
\* lock cycle of that piece, which promotes the staged piece to player, and
\* the piece is never the player again.
OnFloor(cs) == \E i \in 1 .. Len(cs) : cs[i].y + 1 = MapH - 1
FreeFall ==
    [][/\ (player = FirstId /\ player' = FirstId) =>
              \A i \in 1 .. Len(cells[FirstId]) :
                  /\ cells'[FirstId][i].y >= cells[FirstId][i].y
                  /\ cells'[FirstId][i].x = cells[FirstId][i].x
       /\ (pc = "move" /\ mv.obj = FirstId /\ player = FirstId) =>
              \/ /\ cells'[FirstId] = Moved(cells[FirstId], 0, 1)
                 /\ will_spawn' = will_spawn
              \/ /\ OnFloor(cells[FirstId])
                 /\ cells'[FirstId] = cells[FirstId]
                 /\ will_spawn'
       /\ (pc = "peek" /\ frame.ctx = "run" /\ will_spawn) => pc' = "lock"
       /\ (pc = "lock" /\ player = FirstId) =>
              /\ will_spawn
              /\ player' = next_player
              /\ player' # FirstId
       /\ (pc = "add_player") => ~will_spawn' /\ pc' = "update"
       /\ (player # None /\ player # FirstId) => player' # FirstId]_vars
FirstPieceLocked ==
    /\ last = "AddPlayerRest"
    /\ player = FirstId + 1
    /\ OnFloor(cells[FirstId])
    /\ ~will_spawn

\* ------------------------------------------------- a game in progress
\* The state of a run in which pieces have locked already: Starts(s) says
\* that the program is in state s.
Starts(s) ==
    /\ cells = s.cells /\ pos = s.pos /\ gravity = s.gravity
    /\ collidable = s.collidable /\ parent = s.parent /\ data = s.data
    /\ player = s.player /\ next_player = s.next_player
    /\ will_spawn = s.will_spawn /\ nobj = s.nobj

\* A piece of an earlier spawn(), locked dx columns and dy rows from where it
\* was constructed: it keeps gravity and collidable on and is in the Field.
Lay(s, id, kind, dx, dy) ==
    LET n == [s EXCEPT !.cells[id] = Shape(kind, SpawnX, SpawnY),
                       !.pos[id] = Vector2(id, SpawnX, SpawnY),
                       !.gravity[id] = TRUE,
                       !.collidable[id] = TRUE]
    IN  Add(ObjMove(n, id, dx, dy), id)

\* The player piece dx columns and dy rows from where it was constructed and
\* the staged piece as add_player leaves it.
Play(s, kind, dx, dy, staged) ==
    LET n == NewPiece(s, kind, SpawnX, SpawnY)
        p == Newest(n)
        m == Add(ObjMove([n EXCEPT !.player = p], p, dx, dy), p)
        q == NewPiece(m, staged, SpawnX, SpawnY)
    IN  StageNext(q, Newest(q))

\* No two collidable objects of s share a coordinate and every collidable
\* piece of the game lies within the walls.
Settled(s) ==
    /\ s.exc = "none"
    /\ \A a \in ObjIds : \A b \in ObjIds : ~CheckCollision(s, a, b)
    /\ \A o \in TetIds : (s.collidable[o] /\ s.parent[o]) =>
          \A i \in 1 .. Len(s.cells[o]) :
              /\ s.cells[o][i].x \in 0 .. (MapW - 1)
              /\ s.cells[o][i].y \in 0 .. (MapH - 1)

FirstPre == MapId + MaxObjs + 1

\* --------------------------------------------- the run with a row to clear
\* An I piece lies locked on the floor against the left wall, with or
\* without an O piece next to it; the player, an I or an O piece, is one row
\* below the spawn place, over the gap or not.  No key is pressed.
InitClear ==
    /\ \E withO \in BOOLEAN, kind \in {"I", "O"}, dx \in {0, 1, 3},
          staged \in Kinds :
          LET a == Lay(Constructed, FirstPre, "I", -3, MapH - 2)
              b == IF withO THEN Lay(a, FirstPre + 1, "O", 1, MapH - 3) ELSE a
              s == Play(b, kind, dx, 1, staged)
          IN  Settled(s) /\ Starts(s)
    /\ pc = "update"
    /\ frame = [NoFrame EXCEPT !.try = TRUE]
    /\ mv = NoMove
    /\ status = "running"
    /\ keys = 0
    /\ last = "init"
    /\ obs = NoObs

NextClear ==
    \/ LockCycle
    \/ MoveStep
    \/ AddPlayerRest
    \/ TickGravity
    \/ TickIdle
    \/ GravityNext
    \/ NoKey

SpecClear == InitClear /\ [][NextClear]_vars

\* C11 Full-row clear: when the piece that has locked completes a row (every
\* slot of the row within the map is occupied, one at least by a piece), the
\* check_tetris() and spawn() that follow empty every slot of that row,
\* delete from every piece exactly its cells of that row and keep every
\* cell of every other row.
RowFull(y) ==
    /\ \A x \in 0 .. (MapW - 1) : data[y][x] # None
    /\ \E x \in 0 .. (MapW - 1) : data[y][x] # MapId
InFullRow(c) == c.y \in 0 .. (MapH - 1) /\ RowFull(c.y)
NotInFullRow(c) == ~InFullRow(c)
LineClear ==
    [][(pc = "lock" /\ last' = "LockCycle") =>
          /\ \A y \in 0 .. (MapH - 1) : RowFull(y) =>
                \A x \in 0 .. (TermW - 1) : data'[y][x] = None
          /\ \A o \in TetIds : parent[o] =>
                cells'[o] = SelectSeq(cells[o], NotInFullRow)]_vars
LineCleared ==
    /\ last = "LockCycle"
    /\ parent[FirstPre] /\ cells[FirstPre] = <<>>
    /\ \A x \in 0 .. (TermW - 1) : data[MapH - 2][x] = None
    /\ \A o \in TetIds : \A i \in 1 .. Len(cells[o]) : cells[o][i].y # MapH - 2

\* ------------------------------------------- the Field's calls on their own
\* Boards of a run: two locked pieces; or the player with the staged piece
\* over it; or the first staged piece and the piece that the second spawn()
\* has just constructed at the same place and not added yet.  One call is made on the board, and the
\* same call once more.
Boards ==
    {s \in UNION {
        {Lay(Lay(Constructed, FirstPre, ka, -3, ya), FirstPre + 1, kb, 1, yb) :
            ka \in Kinds, kb \in Kinds,
            ya \in (MapH - 3) .. (MapH - 2), yb \in (MapH - 3) .. (MapH - 2)},
        {Play(Constructed, ka, 0, ya, kb) :
            ka \in Kinds, kb \in Kinds, ya \in 1 .. 2},
        {NewPiece(StageNext(NewPiece(Constructed, ka, SpawnX, SpawnY), FirstId),
                  kb, SpawnX, SpawnY) :
            ka \in Kinds, kb \in Kinds}} :
        ~s.full /\ Settled(s)}

Args(op, x, y, obj, ret) == [op |-> op, x |-> x, y |-> y, obj |-> obj, ret |-> ret]

InitField ==
    /\ \E s \in Boards : Starts(s)
    /\ pc = "ready"
    /\ frame = NoFrame
    /\ mv = NoMove
    /\ status = "running"
    /\ keys = 0
    /\ last = "init"
    /\ obs = Args("none", 0, 0, None, None)

\* The program after a call that leaves it in state s; an exception that
\* the call raises is the status.
Called(s, a, name) ==
    /\ Assign(s)
    /\ obs' = a
    /\ last' = name
    /\ status' = IF s.exc = "none" THEN status ELSE s.exc
    /\ UNCHANGED <<frame, mv, keys>>

Apply(s, a) ==
    CASE a.op = "remove_at" -> FieldRemoveAt(s, a.x, a.y)
      [] a.op = "remove_line" -> FieldRemoveLine(s, a.y)
      [] a.op = "remove" -> FieldRemove(s, a.obj)

RemoveAtCall ==
    /\ pc = "ready"
    /\ pc' = "once"
    /\ \E x \in 0 .. (MapW - 1), y \in 0 .. (MapH - 1) :
          LET a == Args("remove_at", x, y, None, FieldGet(Cur, x, y))
          IN  Called(Apply(Cur, a), a, "RemoveAtCall")

RemoveLineCall ==
    /\ pc = "ready"
    /\ pc' = "once"
    /\ \E y \in 0 .. (MapH - 1) :
          LET a == Args("remove_line", 0, y, None, None)
          IN  Called(Apply(Cur, a), a, "RemoveLineCall")

RemoveCall ==
    /\ pc = "ready"
    /\ pc' = "once"
    /\ \E o \in {o \in TetIds : Len(cells[o]) > 0} :
          LET a == Args("remove", 0, 0, o, None)
          IN  Called(Apply(Cur, a), a, "RemoveCall")

CallAgain ==
    /\ pc = "once"
    /\ pc' = "twice"
    /\ status = "running"
    /\ Called(Apply(Cur, obs), obs, "CallAgain")

NextField ==
    \/ RemoveAtCall
    \/ RemoveLineCall
    \/ RemoveCall
    \/ CallAgain

SpecField == InitField /\ [][NextField]_vars

\* C13 remove_line(y): after the call every slot of row y is empty and no
\* piece of the game keeps a cell with that y.
RowRemoved ==
    [][last' = "RemoveLineCall" =>
          /\ \A x \in 0 .. (TermW - 1) : data'[obs'.y][x] = None
          /\ \A o \in TetIds : parent[o] =>
                \A i \in 1 .. Len(cells'[o]) : cells'[o][i].y # obs'.y]_vars

\* C14 remove_at(x, y) on a slot whose owner is a piece with a cell at
\* (x, y): the owner loses that cell and no other, in place; the cells of
\* every other object and every other slot are as before, and nothing is
\* raised.
CellAt(cs, x, y) == CHOOSE n \in 1 .. Len(cs) : cs[n] = Cell(x, y)
RemoveAtFrame ==
    [][(last' = "RemoveAtCall" /\ data[obs'.y][obs'.x] \in TetIds
           /\ Has(data[obs'.y][obs'.x], obs'.x, obs'.y)) =>
          LET o == data[obs'.y][obs'.x]
          IN  /\ cells' = [cells EXCEPT
                              ![o] = DelAt(cells[o], CellAt(cells[o], obs'.x, obs'.y))]
              /\ data' = [data EXCEPT ![obs'.y][obs'.x] = None]
              /\ status' = "running"]_vars
OneCellRemoved ==
    /\ last = "RemoveAtCall"
    /\ obs.ret \in TetIds
    /\ Len(cells[obs.ret]) = 3
    /\ ~Has(obs.ret, obs.x, obs.y)

\* C20 Removal is idempotent: remove_at on an empty slot, Field.remove of an
\* object that owns no slot and a second remove_line of the same row raise
\* nothing and leave the Field and every cell list as they are.
Absent(o) == \A y \in 0 .. (TermH - 1) : \A x \in 0 .. (TermW - 1) : data[y][x] # o
RemovalIdempotent ==
    [][/\ (last' = "RemoveAtCall" /\ data[obs'.y][obs'.x] = None) =>
              (UNCHANGED <<cells, data>> /\ status' = "running")
       /\ (last' = "RemoveCall" /\ Absent(obs'.obj)) =>
              (UNCHANGED <<cells, data>> /\ status' = "running")
       /\ (last' = "CallAgain" /\ obs.op = "remove_line") =>
              (UNCHANGED <<cells, data>> /\ status' = "running")]_vars

\* ---------------------------------------------- the queries on their own
\* One query is made on a board: Field.get, Field.check_filled, the
\* check_collision of Game.move, made after one step of a piece, or the
\* comparison of two Vector2.
GetXs == {-TermW - 1, -TermW, -1, 0, MapW - 1, TermW - 1, TermW}
GetYs == {-TermH - 1, -TermH, -1, 0, MapH - 1, TermH - 1, TermH}
UnitMoves == {<<0, 0>>, <<1, 0>>, <<-1, 0>>, <<0, 1>>, <<0, -1>>}

Asked(a, name) ==
    /\ obs' = a
    /\ last' = name
    /\ pc' = "done"
    /\ UNCHANGED <<frame, mv, keys, status>>

FieldGetCall ==
    /\ pc = "ready"
    /\ \E x \in GetXs, y \in GetYs :
          Asked(Args("get", x, y, None, FieldGet(Cur, x, y)), "FieldGetCall")
    /\ Assign(Cur)

CheckFilledCall ==
    /\ pc = "ready"
    /\ \E y \in 0 .. (MapH - 1) :
          Asked(Args("check_filled", 0, y, None, CheckFilled(Cur, y)),
                "CheckFilledCall")
    /\ Assign(Cur)

\* obs.obj is <<a, b>>, obs.ret is <<check_collision(a, b),
\* check_collision(b, a), check_collision(a, a)>>.
CheckCollisionCall ==
    /\ pc = "ready"
    /\ \E a \in {o \in TetIds : Len(cells[o]) > 0}, b \in ObjIds, d \in UnitMoves :
          LET m == ObjMove(Cur, a, d[1], d[2])
          IN  /\ Assign(m)
              /\ Asked(Args("check_collision", 0, 0, <<a, b>>,
                             <<CheckCollision(m, a, b), CheckCollision(m, b, a),
                               CheckCollision(m, a, a)>>),
                       "CheckCollisionCall")

\* v1 = Vector2(x, y); v2 = Vector2(x, y); v1 == v1 or v1 == v2: obs.obj is
\* the pair of the identities of the operands, obs.ret the result.
VecVals == 0 .. 2

Vector2EqCall ==
    /\ pc = "ready"
    /\ \E x \in VecVals, y \in VecVals, other \in BOOLEAN :
          LET v1 == Vector2(Fresh, x, y)
              v2 == IF other THEN Vector2(Fresh - 1, x, y) ELSE v1
          IN  Asked(Args("eq", x, y, <<v1.oid, v2.oid>>, Vector2Eq(v1, v2)),
                    "Vector2EqCall")
    /\ Assign(Cur)

NextQuery ==
    \/ FieldGetCall
    \/ CheckFilledCall
    \/ CheckCollisionCall
    \/ Vector2EqCall

SpecQuery == InitField /\ [][NextQuery]_vars

\* C12 check_filled(y) is true if and only if every slot of row y within the
\* map width is occupied and one occupant at least is not the wall map.
FilledIff == last = "CheckFilledCall" => (obs.ret <=> RowFull(obs.y))
FilledSeen ==
    /\ last = "CheckFilledCall"
    /\ obs.ret
    /\ ~CheckFilled(Cur, MapH - 1)
    /\ \A x \in 0 .. (MapW - 1) : data[MapH - 1][x] = MapId

\* C16 check_collision(a, b) is false for a = b, false when a or b is not
\* collidable, and otherwise true exactly when a cell of a and a cell of b
\* have the same (x, y).
Share(a, b) ==
    \E i \in 1 .. Len(cells[a]) : \E j \in 1 .. Len(cells[b]) :
        cells[a][i] = cells[b][j]
CollisionOracle ==
    last = "CheckCollisionCall" =>
        (obs.ret[1] <=> (/\ obs.obj[1] # obs.obj[2]
                         /\ collidable[obs.obj[1]] /\ collidable[obs.obj[2]]
                         /\ Share(obs.obj[1], obs.obj[2])))
CollisionSeen ==
    /\ last = "CheckCollisionCall"
    /\ obs.ret[1]
    /\ obs.obj[2] # MapId

\* C17 check_collision(a, b) = check_collision(b, a), and
\* check_collision(a, a) is false.
CollisionSymmetric ==
    last = "CheckCollisionCall" => (obs.ret[1] = obs.ret[2] /\ ~obs.ret[3])
SymmetricSeen ==
    /\ last = "CheckCollisionCall"
    /\ obs.ret[1] /\ obs.ret[2]
    /\ obs.obj[2] = MapId

\* C18 Field.get(x, y) of a coordinate outside 0 <= x < width,
\* 0 <= y < height returns empty.
GetInBounds ==
    (last = "FieldGetCall"
        /\ ~(obs.x \in 0 .. (TermW - 1) /\ obs.y \in 0 .. (TermH - 1)))
    => obs.ret = None

\* C15 Wall immutability: the cell list of the Map is the list that Map.load
\* made, in every state.
WallsKept == cells[MapId] = MapCells
WallsTested ==
    /\ last = "MoveStep"
    /\ mv.obj = MapId
    /\ parent[FirstPre] /\ cells[FirstPre] = <<>>
    /\ data[MapH - 2][0] = MapId

\* ------------------------------------------- the run at the top of the Field
\* The player piece has been moved up, to the last rows that list indexing
\* reaches from below; the staged piece is at the spawn place.
InitEdge ==
    /\ \E kind \in Kinds, staged \in Kinds, dy \in (-TermH) .. (1 - TermH) :
          LET s == Play(Constructed, kind, 0, dy, staged)
          IN  s.exc = "none" /\ Starts(s)
    /\ pc = "update"
    /\ frame = [NoFrame EXCEPT !.try = TRUE]
    /\ mv = NoMove
    /\ status = "running"
    /\ keys = 0
    /\ last = "init"
    /\ obs = NoObs

NextEdge ==
    \/ MoveStep
    \/ TickGravity
    \/ TickIdle
    \/ GravityNext
    \/ NoKey
    \/ KeyLeft
    \/ KeyRight
    \/ KeyUp
    \/ KeyDown
    \/ KeyEnter
    \/ KeyEsc

SpecEdge == InitEdge /\ [][NextEdge]_vars

\* C19 An out-of-range Field write is no fault: when Game.move leaves a cell
\* of the piece outside the Field, run() has not ended with StatusCode.Error.
OffField(o) ==
    \E i \in 1 .. Len(cells[o]) :
        ~(cells[o][i].x \in 0 .. (TermW - 1) /\ cells[o][i].y \in 0 .. (TermH - 1))
WriteRecovered ==
    (last = "MoveStep" /\ mv.obj # None /\ OffField(mv.obj))
        => status # "returned Error"

\* C21 split() of a piece with fewer than 2 cells, or of which every cell
\* has another cell within Manhattan distance 1, returns None, makes no
\* object and leaves the cell list as it is; no call takes more than one
\* cell off the list.
AllNear(cs) ==
    \A n \in 1 .. Len(cs) : \E m \in 1 .. Len(cs) :
        m # n /\ Abs(cs[n].x - cs[m].x) + Abs(cs[n].y - cs[m].y) <= 1
SplitNone ==
    last = "SplitPiece" =>
        /\ (Len(obs.before) < 2 \/ AllNear(obs.before)) =>
               /\ obs.ret = None
               /\ cells[FirstId] = obs.before
               /\ nobj = 1
        /\ Len(cells[FirstId]) >= Len(obs.before) - 1
SplitKept ==
    /\ last = "SplitPiece"
    /\ Len(obs.before) >= 2
    /\ AllNear(obs.before)
    /\ obs.ret = None
    /\ cells[FirstId] = obs.before

\* --------------------------------------------------- Game.move on its own
\* A game in progress: a locked piece at the left wall, on the floor or above
\* it, the player at the left wall, in the middle or at the right wall, and
\* the staged piece.  One Game.move is made, as a key handler makes it or as
\* the gravity loop of Game.update makes it.  obs.ret lists the on_collided
\* calls of the move.
KeyDeltas == {<<-1, 0>>, <<1, 0>>, <<0, -1>>, <<0, DownStep>>}

InitMove ==
    /\ \E ka \in Kinds, ya \in 1 .. (MapH - 2), kb \in Kinds,
          dx \in {-3, 0, 3}, dy \in 1 .. 2, staged \in Kinds :
          LET s == Play(Lay(Constructed, FirstPre, ka, -3, ya), kb, dx, dy, staged)
          IN  ~s.full /\ Settled(s) /\ Starts(s)
    /\ pc = "ready"
    /\ frame = NoFrame
    /\ mv = NoMove
    /\ status = "running"
    /\ keys = 0
    /\ last = "init"
    /\ obs = Args("none", 0, 0, None, <<>>)

\* Game.move(obj, dx, dy) up to its Terminal.update.
MoveCalled(obj, dx, dy, name) ==
    LET s == MoveBody(FieldClear(Cur, obj), obj, dx, dy)
    IN  /\ Assign(s)
        /\ obs' = Args("move", dx, dy, obj, s.ev)
        /\ mv' = [obj |-> obj, dx |-> dx, dy |-> dy, from |-> cells[obj]]
        /\ status' = IF s.exc = "none" THEN status ELSE s.exc
        /\ pc' = "done"
        /\ last' = name
        /\ UNCHANGED <<frame, keys>>

MoveKeyCall ==
    /\ pc = "ready"
    /\ \E d \in KeyDeltas : MoveCalled(player, d[1], d[2], "MoveKeyCall")

MoveGravityCall ==
    /\ pc = "ready"
    /\ \E k \in 1 .. Len(Children(data)) :
          /\ gravity[Children(data)[k]]
          /\ MoveCalled(Children(data)[k], 0, 1, "MoveGravityCall")

NextMove ==
    \/ MoveKeyCall
    \/ MoveGravityCall

SpecMove == InitMove /\ [][NextMove]_vars

\* C22 Locking is triggered only by a vertical collision of the player:
\* a Game.move that starts with will_spawn off ends with will_spawn on only
\* if the moved object is the player, the move is downward and a step of it
\* was blocked; a blocked move to the left or to the right and a blocked move
\* of any other object leave will_spawn off.
Blocked == cells[mv.obj] # Moved(mv.from, mv.dx, mv.dy)
LockOnlyByPlayerDown ==
    last \in {"MoveKeyCall", "MoveGravityCall"} =>
        (will_spawn => (mv.obj = player /\ mv.dy > 0 /\ mv.dx = 0 /\ Blocked))
SideBlocked ==
    /\ last = "MoveKeyCall"
    /\ mv.dx # 0
    /\ cells[player] = mv.from
    /\ ~will_spawn

\* C23 Active piece always present: once the spawn() of Game.run has
\* returned, at the start of every tick and throughout Game.update and the
\* test of will_spawn after it, player is an object, next_player is an
\* object, and they are two different objects.
InTick ==
    \/ pc \in {"update", "gravity", "lock"}
    \/ pc \in {"move", "peek"} /\ frame.ctx # "add_player"
ActivePiece ==
    InTick => (player # None /\ next_player # None /\ player # next_player)
SecondPieceActive ==
    /\ pc = "update"
    /\ last = "AddPlayerRest"
    /\ player = FirstId + 1
    /\ next_player = FirstId + 2

\* C24 No input command translates the player piece upward: the moves that
\* the key handlers issue have dy >= 0, so after a Game.move of the player
\* no cell of it is higher than before.
NoUpwardInput ==
    (last = "MoveStep" /\ mv.obj # None /\ mv.obj = player) =>
        /\ mv.dy >= 0
        /\ \A i \in 1 .. Len(cells[player]) : cells[player][i].y >= mv.from[i].y

\* C25 Vector2 equality is by value: two Vector2 built with the same x and
\* the same y compare equal with ==.
VectorEqByValue == last = "Vector2EqCall" => obs.ret

\* C26 Every accepted rotation updates the Field: when Enter is pressed and
\* the rotation is not rolled back, then right after the handler every
\* coordinate that the rotation has brought into the piece is a slot owned by
\* the piece and no coordinate that it has taken out of the piece is.
Coords(cs) == {<<cs[i].x, cs[i].y>> : i \in 1 .. Len(cs)}
Owns(d, o, c) ==
    /\ c[1] \in 0 .. (TermW - 1)
    /\ c[2] \in 0 .. (TermH - 1)
    /\ d[c[2]][c[1]] = o
RotationUpdatesField ==
    [][(last' = "KeyEnter" /\ status' = "running" /\ ~RotateHits(Cur, player)) =>
          /\ \A c \in Coords(cells'[player]) \ Coords(cells[player]) :
                Owns(data', player, c)
          /\ \A c \in Coords(cells[player]) \ Coords(cells'[player]) :
                ~Owns(data', player, c)]_vars

\* C27 restructure() re-registers the fragment: when restructure() splits an
\* isolated cell off a piece, the slot at the coordinate of that cell is
\* owned by the new piece and Field.children enumerates the new piece.
RestructureRegisters ==
    (last = "RestructureCall" /\ HasIsolated(obs.before)) =>
        LET c == obs.before[FirstIsolated(obs.before)]
        IN  /\ obs.ret # None
            /\ data[c.y][c.x] = obs.ret
            /\ \E k \in 1 .. Len(Children(data)) : Children(data)[k] = obs.ret

\* C28 rotate() is a quarter turn about cells[0] with no wall kick: after
\* any number of accepted rotations the pivot cell has the coordinate it had
\* and every other cell the distance to the pivot it had, and after two
\* accepted rotations in a row every cell's offset (dx, dy) from the pivot
\* is the opposite, (-dx, -dy), of its offset at the start.
OffX(cs, i) == cs[i].x - cs[1].x
OffY(cs, i) == cs[i].y - cs[1].y
QuarterTurn ==
    last = "RotateAgain" =>
        /\ Len(cells[player]) = Len(obs.before)
        /\ cells[player][1] = obs.before[1]
        /\ \A i \in 1 .. Len(obs.before) :
              Abs(OffX(cells[player], i)) + Abs(OffY(cells[player], i))
                  = Abs(OffX(obs.before, i)) + Abs(OffY(obs.before, i))
        /\ obs.n = 2 =>
              \A i \in 1 .. Len(obs.before) :
                  /\ OffX(cells[player], i) = -OffX(obs.before, i)
                  /\ OffY(cells[player], i) = -OffY(obs.before, i)

\* C29 When a unit step of a Game.move collides, on_collided is called on
\* the moving object and then on the object it hit, each with the other as
\* the Collision's other, and both Collisions carry the delta of the step.
StepDx == IF mv.dx # 0 THEN Some(Op(mv.dx)) ELSE Nothing
StepDy == IF mv.dx # 0 THEN Nothing ELSE Some(Op(mv.dy))
BothNotified ==
    last \in {"MoveKeyCall", "MoveGravityCall"} =>
        /\ (Blocked /\ mv.obj # MapId) => Len(obs.ret) >= 2
        /\ Len(obs.ret) % 2 = 0
        /\ \A k \in 1 .. (Len(obs.ret) \div 2) :
              LET a == obs.ret[2 * k - 1]
                  b == obs.ret[2 * k]
              IN  /\ a.self = mv.obj
                  /\ b.self = a.col.other
                  /\ b.col.other = mv.obj
                  /\ a.col.dx = StepDx /\ a.col.dy = StepDy
                  /\ b.col.dx = StepDx /\ b.col.dy = StepDy

\* C30 Lock cycle ordering: when Game.update returns with will_spawn on, the
\* lock cycle follows; the lock cycle is entered only with will_spawn on and
\* calls check_tetris once, restructure once after it and then promotes the
\* one staged piece to player; no other step calls check_tetris; and
\* will_spawn is off whenever a tick starts.
LockCalls == <<"check_tetris", "restructure", "promote">>
LockOrder ==
    [][/\ (pc = "peek" /\ frame.ctx = "run" /\ will_spawn /\ last' = "NoKey") =>
              pc' = "lock"
       /\ pc' = "lock" => will_spawn'
       /\ (last' = "LockCycle" /\ status' = "running") =>
              /\ pc = "lock" /\ will_spawn
              /\ obs'.calls = LockCalls
              /\ player' = next_player
              /\ player' # player
       /\ last' # "LockCycle" =>
              \A k \in 1 .. Len(obs'.calls) : obs'.calls[k] # "check_tetris"
       /\ pc' = "update" => ~will_spawn']_vars
LockCycleSeen ==
    /\ last = "LockCycle"
    /\ status = "running"
    /\ obs.calls = LockCalls
    /\ player # None /\ player = next_player
    /\ will_spawn

\* ------------------------------------------------ the run on a high stack
\* Two boards of a game in which the stack has reached the spawn place.
\* Tower: an O piece lies locked on the floor under the spawn place and the
\* player, promoted over it, was blocked on its first move and is still
\* where it was constructed.  Stack: an I piece lies on the floor, an L
\* piece rests on its left end in row 1, and the player has been steered to
\* the right above the other end.  The staged piece is at the spawn place.
\* No key is pressed.
Tower(kind, staged) ==
    Play(Lay(Constructed, FirstPre, "O", 0, MapH - 3), kind, 0, 0, staged)

Stack(kind, dy, staged) ==
    Play(Lay(Lay(Constructed, FirstPre, "I", -1, MapH - 2),
             FirstPre + 1, "L", -3, MapH - 4),
         kind, 2, dy, staged)

InitStack ==
    /\ \E kind \in Kinds, staged \in Kinds, dy \in 0 .. 1 :
          \/ LET s == Tower(kind, staged)
             IN  /\ dy = 0
                 /\ Settled(s)
                 /\ CheckCollision(ObjMove(s, s.player, 0, 1), s.player, FirstPre)
                 /\ Starts(s)
          \/ LET s == Stack(kind, dy, staged)
             IN  Settled(s) /\ Starts(s)
    /\ pc = "update"
    /\ frame = [NoFrame EXCEPT !.try = TRUE]
    /\ mv = NoMove
    /\ status = "running"
    /\ keys = 0
    /\ last = "init"
    /\ obs = NoObs

SpecStack == InitStack /\ [][NextClear]_vars

\* C31 Staging invariant: at the start of every tick and throughout it, the
\* staged piece has gravity off and collision off and has exactly the cells
\* it was constructed with at the spawn place, and the player has gravity on
\* and collision on; the piece that a lock cycle promotes still has the
\* cells it was constructed with when add_player makes it the player.
AsConstructed(cs) == \E kind \in Kinds : cs = Shape(kind, SpawnX, SpawnY)
StagedOK ==
    (InTick /\ player # None /\ next_player # None) =>
        /\ ~gravity[next_player]
        /\ ~collidable[next_player]
        /\ AsConstructed(cells[next_player])
        /\ gravity[player]
        /\ collidable[player]
StagedIntact ==
    [][/\ StagedOK'
       /\ (last' = "LockCycle" /\ status' = "running") =>
              /\ player' = next_player
              /\ AsConstructed(cells'[player'])]_vars

\* C32 One gravity move per object per tick: each move the gravity loop
\* requests is one unit down, for a gravity-enabled object that the loop has
\* not moved in this tick, and when the loop ends every gravity-enabled
\* object of the game that has a cell on the board has been moved by it.
HasCellOnBoard(o) ==
    \E i \in 1 .. Len(cells[o]) :
        cells[o][i].x \in 0 .. (MapW - 1) /\ cells[o][i].y \in 0 .. (MapH - 1)
GravityOnce ==
    [][/\ (pc = "gravity" /\ last' = "GravityNext") =>
              /\ mv'.obj \notin frame.checked
              /\ gravity[mv'.obj]
              /\ mv'.dx = 0 /\ mv'.dy = 1
       /\ (pc = "gravity" /\ last' = "GravityEnd") =>
              \A o \in Tracked :
                  (gravity[o] /\ HasCellOnBoard(o)) => o \in frame.checked]_vars

\* C33 Field mutations are serialized under re-entrant input: a state in
\* which Field.clear(obj) of a move has run and its Field.update(obj) has
\* not is left only by the rest of that same move, and a key handler starts
\* only from Terminal.peek_key_event; when it starts right after a move,
\* every cell of the moved object that lies on the board is recorded in the
\* Field as owned by that object.
KeyNames == {"KeyLeft", "KeyRight", "KeyUp", "KeyDown", "KeyEnter", "KeyEsc"}
Recorded(o) ==
    \A i \in 1 .. Len(cells[o]) :
        (InRange(cells[o][i].x, TermW) /\ InRange(cells[o][i].y, TermH)) =>
            data[PyIdx(cells[o][i].y, TermH)][PyIdx(cells[o][i].x, TermW)] = o
Serialized ==
    [][/\ (pc = "move") => (last' = "MoveStep" /\ mv' = mv)
       /\ (last' \in KeyNames) =>
              /\ pc = "peek"
              /\ (last = "MoveStep") => Recorded(mv.obj)]_vars
NestedHandler ==
    /\ last \in {"KeyLeft", "KeyRight", "KeyUp", "KeyDown"}
    /\ frame.ctx = "gravity"
    /\ pc = "move"

\* C34 Quit unwinds immediately: the step that reads ESC ends the run with
\* run() returning StatusCode.Exit, and no step of the program follows the
\* end of the run.
QuitReturnsExit ==
    [][/\ pc # "done"
       /\ (last' = "KeyEsc") => (pc' = "done" /\ status' = "returned Exit")]_vars

\* C35 No overlap of collidable objects: when a tick starts (Game.run is
\* about to call Game.update), no two distinct collidable objects of the
\* game have a cell at the same coordinate.
Overlap(a, b) ==
    \E i \in 1 .. Len(cells[a]), j \in 1 .. Len(cells[b]) :
        cells[a][i] = cells[b][j]
NoOverlap ==
    (pc = "update") =>
        \A a \in Tracked, b \in Tracked :
            (a # b /\ collidable[a] /\ collidable[b]) => ~Overlap(a, b)

\* ------------------------------------------- check_tetris on a full row
\* A piece of any kind, as constructed or rotated, shifted, locked on a board
\* that is empty, or that holds an I piece and a second piece in one row
\* which the piece completes.  check_tetris() is called, or the calls it makes are made one by one
\* for rows chosen in ascending order: Field.remove_line(y) for each row,
\* then one Field.restructure().
PlacedOn(s, kind, rot, dx, dy) ==
    LET n == NewPiece(s, kind, SpawnX, SpawnY)
        p == Newest(n)
        r == IF rot THEN [n EXCEPT !.cells[p] = RotateCells(n.cells[p], FALSE)]
             ELSE n
    IN  Add(ObjMove(r, p, dx, dy), p)

InitLines ==
    /\ \/ \E kind \in Kinds, rot \in BOOLEAN, dx \in -3 .. 4,
             dy \in 0 .. (MapH - 2) :
             LET s == PlacedOn(Constructed, kind, rot, dx, dy)
             IN  Settled(s) /\ Starts(s)
       \/ \E row \in 0 .. (MapH - 2), kb \in Kinds, xb \in 1 .. 2,
             yb \in 0 .. (MapH - 2) :
             LET b == Lay(Lay(Constructed, FirstPre, "I", -3, row),
                          FirstPre + 1, kb, xb, yb)
             IN  /\ Cardinality({x \in 0 .. (MapW - 1) :
                                    b.data[row][x] # None}) \in {MapW - 2, MapW - 1}
                 /\ Settled(b)
                 /\ \E kind \in Kinds, rot \in BOOLEAN, dx \in 0 .. 4,
                       dy \in 0 .. (MapH - 2) :
                       LET s == PlacedOn(b, kind, rot, dx, dy)
                       IN  CheckFilled(s, row) /\ Settled(s) /\ Starts(s)
    /\ pc = "lines"
    /\ frame = NoFrame
    /\ mv = NoMove
    /\ status = "running"
    /\ keys = 0
    /\ last = "init"
    /\ obs = NoObs

\* self.check_tetris(); obs.ret is the number of tetriminos there were.
CheckTetrisCall ==
    /\ pc = "lines"
    /\ obs.n = 0
    /\ LET s == CheckTetris(Cur)
       IN  /\ Assign(s)
           /\ obs' = [obs EXCEPT !.ret = nobj, !.calls = s.calls]
    /\ pc' = "done"
    /\ last' = "CheckTetrisCall"
    /\ UNCHANGED <<frame, mv, status, keys>>

\* self.field.remove_line(y) for a row below the rows removed so far;
\* obs.n is the number of rows passed.
RemoveLineStep ==
    /\ pc = "lines"
    /\ \E y \in obs.n .. (MapH - 2) :
          /\ Assign(FieldRemoveLine(Cur, y))
          /\ obs' = [obs EXCEPT !.n = y + 1]
    /\ pc' = "lines"
    /\ last' = "RemoveLineStep"
    /\ UNCHANGED <<frame, mv, status, keys>>

\* self.field.restructure() after the rows have been removed.
RestructureStep ==
    /\ pc = "lines"
    /\ obs.n > 0
    /\ LET s == FieldRestructure(Cur)
       IN  /\ Assign(s)
           /\ obs' = [obs EXCEPT !.ret = nobj, !.calls = s.calls]
    /\ pc' = "done"
    /\ last' = "RestructureStep"
    /\ UNCHANGED <<frame, mv, status, keys>>

NextLines ==
    \/ CheckTetrisCall
    \/ RemoveLineStep
    \/ RestructureStep

SpecLines == InitLines /\ [][NextLines]_vars

\* C36 Pieces stay connected: when check_tetris has completed (the rows
\* removed, then the single restructure pass), the cells that every
\* tetrimino has left are connected under Manhattan adjacency.
RECURSIVE Reach(_, _)
Reach(cs, S) ==
    LET T == S \cup {j \in 1 .. Len(cs) :
                        \E i \in S :
                            Abs(cs[i].x - cs[j].x) + Abs(cs[i].y - cs[j].y) = 1}
    IN  IF T = S THEN S ELSE Reach(cs, T)
Connected(cs) == Len(cs) = 0 \/ Reach(cs, {1}) = 1 .. Len(cs)
PiecesConnected ==
    (last \in {"CheckTetrisCall", "RestructureStep"}) =>
        \A o \in TetIds : Connected(cells[o])
PieceWasSplit ==
    /\ last = "CheckTetrisCall"
    /\ nobj > obs.ret
    /\ \E o \in TetIds : Len(cells[o]) = 2 /\ Connected(cells[o])

\* ------------------------------------------------ the run as it is scheduled
\* The thread of Game.run does not stop: Terminal.update returns when no key
\* is pending, the loops of Game.move and the search of the gravity loop for
\* its next object end, and the clock passes the next second after finitely
\* many iterations of the loop, so Game.update runs its gravity loop again
\* and again.
SpecStackFair ==
    /\ SpecStack
    /\ SF_vars(TickGravity)
    /\ WF_vars(NoKey)
    /\ []<>(pc # "move")
    /\ []<>(pc # "gravity")

\* C37 Progress without input: with no key pressed, from every start of a
\* tick the player piece is eventually locked, so that check_tetris() and
\* spawn() follow, or the run ends.
PlayerProgress == (pc = "update") ~> (pc \in {"lock", "done"})

====
